---- MODULE Spec2Model ----
(***************************************************************************)
(* A model of midi-2-protocol: bit-range fields over a packet of 32-bit    *)
(* words, fixed-size messages built over such packets, and the families    *)
(* that classify a packet by its status or opcode.                         *)
(*                                                                         *)
(* A packet is the Msb0 bit view of a [u32]: the sequence of its bits, bit *)
(* 0 (the most significant bit of word 0) at index 1.  An integral (u8,    *)
(* u16, u32) is the sequence of its bits, most significant first: TLC's    *)
(* integers are 32-bit signed and cannot hold every u32.                   *)
(***************************************************************************)
EXTENDS Integers, Sequences, FiniteSets, TLC

VARIABLES
    packet,     \* the caller's buffer, as the bits of its words
    message,    \* the kind of the live message handle over packet, or "none"
    log,        \* the writes applied to packet since it was initialised
    op,         \* the last operation called, with its arguments
    prev,       \* packet as it was before the last operation
    result      \* what the last operation returned

vars == <<packet, message, log, op, prev, result>>

----------------------------------------------------------------------------
(* Results and errors (lib.rs)                                             *)

Ok(v) == [tag |-> "Ok", value |-> v]

Err(e) == [tag |-> "Err", error |-> e]

\* A panic: an unwrap of Err, unreachable!(), or a slice index out of range.
Panic == [tag |-> "Panic"]

Error_conversion(value) == [kind |-> "Conversion", value |-> value]

Error_overflow(value, size) == [kind |-> "Overflow", value |-> value, size |-> size]

Error_size(expected, actual) == [kind |-> "Size", expected |-> expected, actual |-> actual]

----------------------------------------------------------------------------
(* Integrals                                                               *)

Zeros(n) == [i \in 1..n |-> 0]

Ones(n) == [i \in 1..n |-> 1]

\* The w-bit integral holding n (n < 2^w, w < 32).
ToBits(n, w) == [i \in 1..w |-> (n \div (2 ^ (w - i))) % 2]

RECURSIVE ToNat(_)
\* The number an integral of at most 31 significant bits holds.
ToNat(v) == IF v = <<>> THEN 0 ELSE 2 * ToNat(SubSeq(v, 1, Len(v) - 1)) + v[Len(v)]

u8(n) == ToBits(n, 8)

u16(n) == ToBits(n, 16)

\* A u32 from its two 16-bit halves.
u32(hi, lo) == ToBits(hi, 16) \o ToBits(lo, 16)

\* A load that takes the slice's last bit as the most significant.
load_be_reversed(slice, width) ==
    Zeros(width - Len(slice)) \o [i \in 1..Len(slice) |-> slice[Len(slice) + 1 - i]]

\* bitvec's load_be over a slice no longer than the integral: the slice's
\* first bit is the most significant, zero-extended to the integral's width.
load_be(slice, width) == Zeros(width - Len(slice)) \o slice

\* A store that keeps the integral's high bits instead of its low bits.
store_be_high(slice, integral) == SubSeq(integral, 1, Len(slice))

\* bitvec's store_be: the slice takes the low Len(slice) bits of the integral.
store_be(slice, integral) ==
    SubSeq(integral, Len(integral) - Len(slice) + 1, Len(integral))

\* bits[range], range = <<start, end>> inclusive and zero-based.
Slice(bits, range) == SubSeq(bits, range[1] + 1, range[2] + 1)

\* Whether bits[range] is in bounds (otherwise the index panics).
InBounds(bits, range) == range[2] < Len(bits)

get_integral(bits, range, width) == load_be(Slice(bits, range), width)

\* A store of the whole integral, ending at the range's last bit.
set_integral_wide(bits, range, integral) ==
    [i \in 1..Len(bits) |->
        IF range[2] + 1 - Len(integral) < i /\ i <= range[2] + 1
        THEN integral[i - (range[2] + 1 - Len(integral))]
        ELSE bits[i]]

set_integral(bits, range, integral) ==
    [i \in 1..Len(bits) |->
        IF range[1] < i /\ i <= range[2] + 1
        THEN store_be(Slice(bits, range), integral)[i - range[1]]
        ELSE bits[i]]

----------------------------------------------------------------------------
(* Field types: the backing integral's width, the declared size of a       *)
(* UInt<integral, size>, the inclusive bit range, and for an enumeration   *)
(* the code of each variant.                                               *)

MessageType ==
    [class |-> "enum", integral |-> 8, range |-> <<0, 3>>,
     codes |-> [Utility |-> 0, System |-> 1, SystemExclusiveData |-> 3,
                Voice |-> 4, Data |-> 5, FlexData |-> 13, Stream |-> 15]]

\* A Group whose range runs one bit into the next field.
Group_wide_range ==
    [class |-> "arbitrary", integral |-> 8, size |-> 4, range |-> <<4, 8>>]

Group == [class |-> "arbitrary", integral |-> 8, size |-> 4, range |-> <<4, 7>>]

Status ==
    [class |-> "enum", integral |-> 8, range |-> <<8, 15>>,
     codes |-> [MIDITimeCode |-> 241, SongPositionPointer |-> 242,
                SongSelect |-> 243, TuneRequest |-> 246, TimingClock |-> 248,
                Start |-> 250, Continue |-> 251, Stop |-> 252,
                ActiveSensing |-> 254, Reset |-> 255]]

Opcode ==
    [class |-> "enum", integral |-> 8, range |-> <<8, 11>>,
     codes |-> [RegisteredPerNoteController |-> 0,
                AssignablePerNoteController |-> 1,
                RegisteredController |-> 2, AssignableController |-> 3,
                RelativeRegisteredController |-> 4,
                RelativeAssignableController |-> 5, PerNotePitchBend |-> 6,
                NoteOff |-> 8, NoteOn |-> 9, PolyPressure |-> 10,
                ControlChange |-> 11, ProgramChange |-> 12,
                ChannelPressure |-> 13, PitchBend |-> 14,
                PerNoteManagement |-> 15]]

AttributeType ==
    [class |-> "enum", integral |-> 8, range |-> <<24, 31>>,
     codes |-> [None |-> 0, Manufacturer |-> 1, Profile |-> 2, Pitch |-> 3]]

Manufacturer == [class |-> "primitive", integral |-> 16, range |-> <<48, 63>>]

Profile == [class |-> "primitive", integral |-> 16, range |-> <<48, 63>>]

\* A Pitch read from an 8-bit slot, as Note is.
Pitch_eight_bit_range ==
    [class |-> "arbitrary", integral |-> 8, size |-> 7, range |-> <<48, 55>>]

Pitch == [class |-> "arbitrary", integral |-> 8, size |-> 7, range |-> <<48, 54>>]

Fractional == [class |-> "arbitrary", integral |-> 16, size |-> 9, range |-> <<55, 63>>]

\* A Channel declared over the opcode's bits.
Channel_opcode_range ==
    [class |-> "enum", integral |-> 8, range |-> <<8, 11>>,
     codes |-> [C1 |-> 0, C2 |-> 1, C3 |-> 2, C4 |-> 3, C5 |-> 4, C6 |-> 5,
                C7 |-> 6, C8 |-> 7, C9 |-> 8, C10 |-> 9, C11 |-> 10,
                C12 |-> 11, C13 |-> 12, C14 |-> 13, C15 |-> 14, C16 |-> 15]]

Channel ==
    [class |-> "enum", integral |-> 8, range |-> <<12, 15>>,
     codes |-> [C1 |-> 0, C2 |-> 1, C3 |-> 2, C4 |-> 3, C5 |-> 4, C6 |-> 5,
                C7 |-> 6, C8 |-> 7, C9 |-> 8, C10 |-> 9, C11 |-> 10,
                C12 |-> 11, C13 |-> 12, C14 |-> 13, C15 |-> 14, C16 |-> 15]]

Bank == [class |-> "arbitrary", integral |-> 8, size |-> 7, range |-> <<16, 23>>]

Controller == [class |-> "arbitrary", integral |-> 8, size |-> 7, range |-> <<24, 31>>]

voice_Data == [class |-> "primitive", integral |-> 32, range |-> <<32, 63>>]

\* Note declared over the seven low bits of its slot only.
Note_seven_bit_range ==
    [class |-> "arbitrary", integral |-> 8, size |-> 7, range |-> <<17, 23>>]

Note == [class |-> "arbitrary", integral |-> 8, size |-> 7, range |-> <<16, 23>>]

PerNoteController == [class |-> "primitive", integral |-> 8, range |-> <<24, 31>>]

Velocity == [class |-> "primitive", integral |-> 16, range |-> <<32, 47>>]

common_Data == [class |-> "arbitrary", integral |-> 8, size |-> 4, range |-> <<20, 23>>]

common_Type == [class |-> "Type", integral |-> 8, range |-> <<17, 19>>]

FieldTypes ==
    {"MessageType", "Group", "Status", "Opcode", "AttributeType",
     "Manufacturer", "Profile", "Pitch", "Fractional", "Channel", "Bank",
     "Controller", "voice::Data", "Note", "PerNoteController", "Velocity",
     "common::Data", "common::Type"}

FieldOf(T) ==
    CASE T = "MessageType" -> MessageType
      [] T = "Group" -> Group
      [] T = "Status" -> Status
      [] T = "Opcode" -> Opcode
      [] T = "AttributeType" -> AttributeType
      [] T = "Manufacturer" -> Manufacturer
      [] T = "Profile" -> Profile
      [] T = "Pitch" -> Pitch
      [] T = "Fractional" -> Fractional
      [] T = "Channel" -> Channel
      [] T = "Bank" -> Bank
      [] T = "Controller" -> Controller
      [] T = "voice::Data" -> voice_Data
      [] T = "Note" -> Note
      [] T = "PerNoteController" -> PerNoteController
      [] T = "Velocity" -> Velocity
      [] T = "common::Data" -> common_Data
      [] T = "common::Type" -> common_Type

----------------------------------------------------------------------------
(* Conversions between a field value and its integral.  A UInt or          *)
(* primitive value is the integral it wraps, an enumeration value is the   *)
(* variant's name, a Type is <<unit, significance>>.                       *)

\* A bounds check that is off by one: the largest value is refused.
arbitrary_try_from_strict(F, value) ==
    IF ToNat(value) < (2 ^ F.size) - 1
    THEN Ok(value)
    ELSE Err(Error_overflow(ToNat(value), F.size))

\* UInt::<integral, size>::try_new(value).map_err(overflow).map(T)
arbitrary_try_from(F, value) ==
    IF ToNat(value) <= (2 ^ F.size) - 1
    THEN Ok(value)
    ELSE Err(Error_overflow(ToNat(value), F.size))

primitive_try_from(F, value) == Ok(value)

\* A conversion that falls back to some variant when no code matches.
enum_try_from_lenient(F, value) ==
    LET variants == {v \in DOMAIN F.codes : F.codes[v] = ToNat(value)}
    IN  IF variants # {}
        THEN Ok(CHOOSE v \in variants : TRUE)
        ELSE Ok(CHOOSE v \in DOMAIN F.codes : TRUE)

\* num_enum's TryFromPrimitive with Error::conversion as the constructor.
enum_try_from(F, value) ==
    LET variants == {v \in DOMAIN F.codes : F.codes[v] = ToNat(value)}
    IN  IF variants # {}
        THEN Ok(CHOOSE v \in variants : TRUE)
        ELSE Err(Error_conversion(ToNat(value)))

\* num_enum's IntoPrimitive.
enum_from(F, variant) == ToBits(F.codes[variant], F.integral)

Significance_from(value) ==
    CASE value = "Least" -> 0
      [] value = "Most" -> 1

Type_from(value) ==
    u8(CASE value[1] = "Frames" -> Significance_from(value[2])
         [] value[1] = "Seconds" -> 2 + Significance_from(value[2])
         [] value[1] = "Minutes" -> 4 + Significance_from(value[2])
         [] value[1] = "Hours" -> 6 + Significance_from(value[2]))

Type_try_from(value) ==
    CASE ToNat(value) = 0 -> Ok(<<"Frames", "Least">>)
      [] ToNat(value) = 1 -> Ok(<<"Frames", "Most">>)
      [] ToNat(value) = 2 -> Ok(<<"Seconds", "Least">>)
      [] ToNat(value) = 3 -> Ok(<<"Seconds", "Most">>)
      [] ToNat(value) = 4 -> Ok(<<"Minutes", "Least">>)
      [] ToNat(value) = 5 -> Ok(<<"Minutes", "Most">>)
      [] ToNat(value) = 6 -> Ok(<<"Hours", "Least">>)
      [] ToNat(value) = 7 -> Ok(<<"Hours", "Most">>)
      [] OTHER -> Err(Error_conversion(ToNat(value)))

\* T::try_from(integral)
try_from(T, value) ==
    LET F == FieldOf(T)
    IN  CASE F.class = "arbitrary" -> arbitrary_try_from(F, value)
          [] F.class = "primitive" -> primitive_try_from(F, value)
          [] F.class = "enum" -> enum_try_from(F, value)
          [] F.class = "Type" -> Type_try_from(value)

\* <integral>::from(value)
from(T, value) ==
    LET F == FieldOf(T)
    IN  CASE F.class = "arbitrary" -> value
          [] F.class = "primitive" -> value
          [] F.class = "enum" -> enum_from(F, value)
          [] F.class = "Type" -> Type_from(value)

\* T::try_new(n), n of T's backing integral type.
try_new(T, n) == try_from(T, ToBits(n, FieldOf(T).integral))

\* Field::try_read: load the range big-endian, then convert.
try_read(T, bits) ==
    LET F == FieldOf(T)
    IN  IF InBounds(bits, F.range)
        THEN try_from(T, get_integral(bits, F.range, F.integral))
        ELSE Panic

\* Field::write: convert, then store big-endian into the range.
write(T, value, bits) == set_integral(bits, FieldOf(T).range, from(T, value))

----------------------------------------------------------------------------
(* Composite values.  An Attribute is <<"None">>, <<"Manufacturer", m>>,   *)
(* <<"Profile", p>> or <<"Pitch", pitch, fractional>>; a QuarterFrame is   *)
(* <<data, type>>.                                                         *)

Attribute_try_read_from_packet(bits) ==
    LET type == try_read("AttributeType", bits)
        manufacturer == try_read("Manufacturer", bits)
        profile == try_read("Profile", bits)
        pitch == try_read("Pitch", bits)
        fractional == try_read("Fractional", bits)
    IN  IF type.tag # "Ok" THEN type
        ELSE CASE type.value = "None" -> Ok(<<"None">>)
               [] type.value = "Manufacturer" ->
                    IF manufacturer.tag # "Ok" THEN manufacturer
                    ELSE Ok(<<"Manufacturer", manufacturer.value>>)
               [] type.value = "Profile" ->
                    IF profile.tag # "Ok" THEN profile
                    ELSE Ok(<<"Profile", profile.value>>)
               [] type.value = "Pitch" ->
                    IF pitch.tag # "Ok" THEN pitch
                    ELSE IF fractional.tag # "Ok" THEN fractional
                    ELSE Ok(<<"Pitch", pitch.value, fractional.value>>)

\* An Attribute write that writes the payload and leaves the attribute type.
Attribute_write_payload_only(value, bits) ==
    CASE value[1] = "None" -> bits
      [] value[1] = "Manufacturer" -> write("Manufacturer", value[2], bits)
      [] value[1] = "Profile" -> write("Profile", value[2], bits)
      [] value[1] = "Pitch" ->
            write("Fractional", value[3], write("Pitch", value[2], bits))

\* An Attribute write that clears the payload when it writes None.
Attribute_write_clearing_payload(value, bits) ==
    CASE value[1] = "None" ->
            write("Manufacturer", u16(0), write("AttributeType", "None", bits))
      [] value[1] = "Manufacturer" ->
            write("Manufacturer", value[2],
                  write("AttributeType", "Manufacturer", bits))
      [] value[1] = "Profile" ->
            write("Profile", value[2], write("AttributeType", "Profile", bits))
      [] value[1] = "Pitch" ->
            write("Fractional", value[3],
                  write("Pitch", value[2],
                        write("AttributeType", "Pitch", bits)))

Attribute_write_to_packet(value, bits) ==
    CASE value[1] = "None" -> write("AttributeType", "None", bits)
      [] value[1] = "Manufacturer" ->
            write("Manufacturer", value[2],
                  write("AttributeType", "Manufacturer", bits))
      [] value[1] = "Profile" ->
            write("Profile", value[2], write("AttributeType", "Profile", bits))
      [] value[1] = "Pitch" ->
            write("Fractional", value[3],
                  write("Pitch", value[2],
                        write("AttributeType", "Pitch", bits)))

QuarterFrame_try_read_from_packet(bits) ==
    LET data == try_read("common::Data", bits)
        type == try_read("common::Type", bits)
    IN  IF data.tag # "Ok" THEN data
        ELSE IF type.tag # "Ok" THEN type
        ELSE Ok(<<data.value, type.value>>)

QuarterFrame_write_to_packet(value, bits) ==
    write("common::Type", value[2], write("common::Data", value[1], bits))

\* The fields try_read_from_packet reads, in the order it reads them: a
\* failed read (`?`) returns before the next.
Attribute_read_accesses(bits) ==
    LET type == try_read("AttributeType", bits)
    IN  IF type.tag # "Ok" THEN <<"AttributeType">>
        ELSE CASE type.value = "None" -> <<"AttributeType">>
               [] type.value = "Manufacturer" -> <<"AttributeType", "Manufacturer">>
               [] type.value = "Profile" -> <<"AttributeType", "Profile">>
               [] type.value = "Pitch" ->
                    IF try_read("Pitch", bits).tag # "Ok"
                    THEN <<"AttributeType", "Pitch">>
                    ELSE <<"AttributeType", "Pitch", "Fractional">>

QuarterFrame_read_accesses(bits) ==
    IF try_read("common::Data", bits).tag # "Ok"
    THEN <<"common::Data">>
    ELSE <<"common::Data", "common::Type">>

\* An Attribute write that writes the payload before the type.
Attribute_write_accesses_payload_first(value) ==
    CASE value[1] = "None" -> <<"AttributeType">>
      [] value[1] = "Manufacturer" -> <<"Manufacturer", "AttributeType">>
      [] value[1] = "Profile" -> <<"Profile", "AttributeType">>
      [] value[1] = "Pitch" -> <<"Pitch", "Fractional", "AttributeType">>

\* The fields write_to_packet writes, in the order it writes them.
Attribute_write_accesses(value) ==
    CASE value[1] = "None" -> <<"AttributeType">>
      [] value[1] = "Manufacturer" -> <<"AttributeType", "Manufacturer">>
      [] value[1] = "Profile" -> <<"AttributeType", "Profile">>
      [] value[1] = "Pitch" -> <<"AttributeType", "Pitch", "Fractional">>

QuarterFrame_write_accesses(value) == <<"common::Data", "common::Type">>

read_accesses(T, bits) ==
    CASE T = "Attribute" -> Attribute_read_accesses(bits)
      [] T = "QuarterFrame" -> QuarterFrame_read_accesses(bits)
      [] OTHER -> <<T>>

write_accesses(T, value) ==
    CASE T = "Attribute" -> Attribute_write_accesses(value)
      [] T = "QuarterFrame" -> QuarterFrame_write_accesses(value)
      [] OTHER -> <<T>>

\* self.get_value::<T>()
get_value(T, bits) ==
    CASE T = "Attribute" -> Attribute_try_read_from_packet(bits)
      [] T = "QuarterFrame" -> QuarterFrame_try_read_from_packet(bits)
      [] OTHER -> try_read(T, bits)

\* self.set_value::<T>(value)
set_value(T, value, bits) ==
    CASE T = "Attribute" -> Attribute_write_to_packet(value, bits)
      [] T = "QuarterFrame" -> QuarterFrame_write_to_packet(value, bits)
      [] OTHER -> write(T, value, bits)

----------------------------------------------------------------------------
(* Message kinds: the family, the size in words, the kind's status or      *)
(* opcode, the named values with their types, and the values try_init      *)
(* takes, in the order it sets them.                                       *)

\* Bits in a word of a packet.
WordBits == 32

\* Words in a System message and in a Voice message.
SystemWords == 1

VoiceWords == 2

system_impl_message(status, values, init) ==
    [family |-> "System", size |-> SystemWords, code |-> status,
     values |-> <<<<"message_type", "MessageType">>, <<"group", "Group">>,
                  <<"status", "Status">>>> \o values,
     init |-> init]

voice_impl_message(opcode, values, init) ==
    [family |-> "Voice", size |-> VoiceWords, code |-> opcode,
     values |-> <<<<"message_type", "MessageType">>, <<"group", "Group">>,
                  <<"opcode", "Opcode">>, <<"channel", "Channel">>>> \o values,
     init |-> init]

MIDITimeCode ==
    system_impl_message("MIDITimeCode", <<<<"quarter_frame", "QuarterFrame">>>>,
                        <<"quarter_frame">>)

TimingClock == system_impl_message("TimingClock", <<>>, <<>>)

Start == system_impl_message("Start", <<>>, <<>>)

Continue == system_impl_message("Continue", <<>>, <<>>)

Stop == system_impl_message("Stop", <<>>, <<>>)

ActiveSensing == system_impl_message("ActiveSensing", <<>>, <<>>)

Reset == system_impl_message("Reset", <<>>, <<>>)

RegisteredPerNoteController ==
    voice_impl_message("RegisteredPerNoteController",
        <<<<"note", "Note">>, <<"per_note_controller", "PerNoteController">>,
          <<"data", "voice::Data">>>>,
        <<"note", "per_note_controller">>)

AssignablePerNoteController ==
    voice_impl_message("AssignablePerNoteController",
        <<<<"note", "Note">>, <<"per_note_controller", "PerNoteController">>,
          <<"data", "voice::Data">>>>,
        <<"note", "per_note_controller">>)

RegisteredController ==
    voice_impl_message("RegisteredController",
        <<<<"bank", "Bank">>, <<"controller", "Controller">>,
          <<"data", "voice::Data">>>>,
        <<"bank", "controller">>)

AssignableController ==
    voice_impl_message("AssignableController",
        <<<<"bank", "Bank">>, <<"controller", "Controller">>,
          <<"data", "voice::Data">>>>,
        <<"bank", "controller">>)

RelativeRegisteredController ==
    voice_impl_message("RelativeRegisteredController",
        <<<<"bank", "Bank">>, <<"controller", "Controller">>,
          <<"data", "voice::Data">>>>,
        <<"bank", "controller">>)

RelativeAssignableController ==
    voice_impl_message("RelativeAssignableController",
        <<<<"bank", "Bank">>, <<"controller", "Controller">>,
          <<"data", "voice::Data">>>>,
        <<"bank", "controller">>)

PerNotePitchBend ==
    voice_impl_message("PerNotePitchBend",
        <<<<"note", "Note">>, <<"data", "voice::Data">>>>, <<"note">>)

NoteOff ==
    voice_impl_message("NoteOff",
        <<<<"note", "Note">>, <<"velocity", "Velocity">>,
          <<"attribute", "Attribute">>>>,
        <<"note", "velocity">>)

NoteOn ==
    voice_impl_message("NoteOn",
        <<<<"note", "Note">>, <<"velocity", "Velocity">>,
          <<"attribute", "Attribute">>>>,
        <<"note", "velocity">>)

\* The kinds each family lists.
CommonKinds == {"MIDITimeCode"}

RealTimeKinds ==
    {"TimingClock", "Start", "Continue", "Stop", "ActiveSensing", "Reset"}

VoiceKinds ==
    {"RegisteredPerNoteController", "AssignablePerNoteController",
     "RegisteredController", "AssignableController",
     "RelativeRegisteredController", "RelativeAssignableController",
     "PerNotePitchBend", "NoteOff", "NoteOn"}

Kinds == CommonKinds \cup RealTimeKinds \cup VoiceKinds

MessageOf(K) ==
    CASE K = "MIDITimeCode" -> MIDITimeCode
      [] K = "TimingClock" -> TimingClock
      [] K = "Start" -> Start
      [] K = "Continue" -> Continue
      [] K = "Stop" -> Stop
      [] K = "ActiveSensing" -> ActiveSensing
      [] K = "Reset" -> Reset
      [] K = "RegisteredPerNoteController" -> RegisteredPerNoteController
      [] K = "AssignablePerNoteController" -> AssignablePerNoteController
      [] K = "RegisteredController" -> RegisteredController
      [] K = "AssignableController" -> AssignableController
      [] K = "RelativeRegisteredController" -> RelativeRegisteredController
      [] K = "RelativeAssignableController" -> RelativeAssignableController
      [] K = "PerNotePitchBend" -> PerNotePitchBend
      [] K = "NoteOff" -> NoteOff
      [] K = "NoteOn" -> NoteOn

\* The bits (zero-based) of a field's range, and the bits a value type reads
\* or writes: a composite value's are those of the fields it is made of.
RangeBits(F) == F.range[1]..F.range[2]

ValueBits(T) ==
    CASE T = "Attribute" ->
            RangeBits(AttributeType) \cup RangeBits(Manufacturer)
                \cup RangeBits(Profile) \cup RangeBits(Pitch)
                \cup RangeBits(Fractional)
      [] T = "QuarterFrame" -> RangeBits(common_Data) \cup RangeBits(common_Type)
      [] OTHER -> RangeBits(FieldOf(T))

\* The names of a kind's values, and the type of the value called name.
ValueNames(K) == {MessageOf(K).values[i][1] : i \in DOMAIN MessageOf(K).values}

ValueType(K, name) ==
    LET values == MessageOf(K).values
    IN  values[CHOOSE i \in DOMAIN values : values[i][1] = name][2]

----------------------------------------------------------------------------
(* Messages.  An operation that takes the buffer returns its result and    *)
(* the buffer's bits as it leaves them.                                    *)

\* The largest u8.
U8Max == 255

\* K::try_new(packet): the size check; a handle is its kind's name.
Message_try_new(K, bits) ==
    IF Len(bits) = MessageOf(K).size * WordBits
    THEN Ok(K)
    ELSE IF Len(bits) <= U8Max
         THEN Err(Error_size(MessageOf(K).size * WordBits, Len(bits)))
         ELSE Panic

\* A packet() of one word whatever the kind.
Message_packet_one_word(K) == Zeros(WordBits)

\* K::packet(): [0u32; $size]
Message_packet(K) == Zeros(MessageOf(K).size * WordBits)

\* A reset that clears the first word only.
reset_first_word(bits) ==
    [i \in 1..Len(bits) |-> IF i <= WordBits THEN 0 ELSE bits[i]]

\* A reset that sets every bit.
reset_fill_true(bits) == Ones(Len(bits))

\* Bits::reset
reset(bits) == Zeros(Len(bits))

\* Debug::fmt: each getter of the kind, unwrapped.
fmt(K, bits) ==
    IF \A name \in ValueNames(K) : get_value(ValueType(K, name), bits).tag = "Ok"
    THEN Ok("formatted")
    ELSE Panic

Group_default == u8(0)

Channel_default == "C1"

\* An initialisation that does not reset the packet first.
system_try_init_internal_no_reset(K, bits) ==
    IF Message_try_new(K, bits).tag # "Ok"
    THEN [result |-> Message_try_new(K, bits), bits |-> bits]
    ELSE [result |-> Ok(K),
          bits |-> set_value("Status", MessageOf(K).code,
                     set_value("Group", Group_default,
                       set_value("MessageType", "System", bits)))]

\* A System initialisation that leaves the status unset.
system_try_init_internal_no_status(K, bits) ==
    IF Message_try_new(K, bits).tag # "Ok"
    THEN [result |-> Message_try_new(K, bits), bits |-> bits]
    ELSE [result |-> Ok(K),
          bits |-> set_value("Group", Group_default,
                     set_value("MessageType", "System", reset(bits)))]

system_try_init_internal(K, bits) ==
    IF Message_try_new(K, bits).tag # "Ok"
    THEN [result |-> Message_try_new(K, bits), bits |-> bits]
    ELSE [result |-> Ok(K),
          bits |-> set_value("Status", MessageOf(K).code,
                     set_value("Group", Group_default,
                       set_value("MessageType", "System", reset(bits))))]

\* A Voice initialisation that does not reset the packet first.
voice_try_init_internal_no_reset(K, bits) ==
    IF Message_try_new(K, bits).tag # "Ok"
    THEN [result |-> Message_try_new(K, bits), bits |-> bits]
    ELSE [result |-> Ok(K),
          bits |-> set_value("Channel", Channel_default,
                     set_value("Opcode", MessageOf(K).code,
                       set_value("Group", Group_default,
                         set_value("MessageType", "Voice", bits))))]

\* An initialisation that leaves the opcode unset.
voice_try_init_internal_no_opcode(K, bits) ==
    IF Message_try_new(K, bits).tag # "Ok"
    THEN [result |-> Message_try_new(K, bits), bits |-> bits]
    ELSE [result |-> Ok(K),
          bits |-> set_value("Channel", Channel_default,
                     set_value("Group", Group_default,
                       set_value("MessageType", "Voice", reset(bits))))]

voice_try_init_internal(K, bits) ==
    IF Message_try_new(K, bits).tag # "Ok"
    THEN [result |-> Message_try_new(K, bits), bits |-> bits]
    ELSE [result |-> Ok(K),
          bits |-> set_value("Channel", Channel_default,
                     set_value("Opcode", MessageOf(K).code,
                       set_value("Group", Group_default,
                         set_value("MessageType", "Voice", reset(bits)))))]

try_init_internal(K, bits) ==
    IF MessageOf(K).family = "System"
    THEN system_try_init_internal(K, bits)
    ELSE voice_try_init_internal(K, bits)

RECURSIVE SetEach(_, _, _, _)
\* .set_<name>(args[name]) for each name of names, in order.
SetEach(K, names, args, bits) ==
    IF names = <<>> THEN bits
    ELSE SetEach(K, Tail(names), args,
                 set_value(ValueType(K, Head(names)), args[Head(names)], bits))

\* K::try_init(packet, args...)
try_init(K, args, bits) ==
    LET internal == try_init_internal(K, bits)
    IN  IF internal.result.tag # "Ok" THEN internal
        ELSE [result |-> Ok(K),
              bits |-> SetEach(K, MessageOf(K).init, args, internal.bits)]

----------------------------------------------------------------------------
(* Families.  A classification returns the path of variants to the kind.   *)

\* system::impl_enumeration!'s try_new over the listed kinds.
system_impl_enumeration(kinds, bits) ==
    LET status == try_read("Status", bits)
    IN  IF status.tag # "Ok" THEN status
        ELSE IF status.value \in kinds
             THEN IF Message_try_new(status.value, bits).tag = "Ok"
                  THEN Ok(<<status.value>>)
                  ELSE Message_try_new(status.value, bits)
             ELSE Panic

Common_try_new(bits) == system_impl_enumeration(CommonKinds, bits)

\* RealTime::try_new: a table lookup on the status, then the kind's size check.
RealTime_try_new(bits) ==
    LET status == try_read("Status", bits)
    IN  IF status.tag # "Ok" THEN status
        ELSE IF status.value \in RealTimeKinds
             THEN IF Message_try_new(status.value, bits).tag = "Ok"
                  THEN Ok(<<status.value>>)
                  ELSE Message_try_new(status.value, bits)
             ELSE Err(Error_conversion(Status.codes[status.value]))

\* Ok(Self::variant(inner?))
Wrap(variant, inner) ==
    IF inner.tag = "Ok" THEN Ok(<<variant>> \o inner.value) ELSE inner

\* A dispatch that sends Reset to the Common family.
System_try_new_reset_as_common(bits) ==
    LET status == try_read("Status", bits)
    IN  IF status.tag # "Ok" THEN status
        ELSE IF status.value \in {"MIDITimeCode", "SongPositionPointer",
                                  "SongSelect", "TuneRequest", "Reset"}
             THEN Wrap("Common", Common_try_new(bits))
             ELSE Wrap("RealTime", RealTime_try_new(bits))

System_try_new(bits) ==
    LET status == try_read("Status", bits)
    IN  IF status.tag # "Ok" THEN status
        ELSE IF status.value \in {"MIDITimeCode", "SongPositionPointer",
                                  "SongSelect", "TuneRequest"}
             THEN Wrap("Common", Common_try_new(bits))
             ELSE Wrap("RealTime", RealTime_try_new(bits))

\* A Voice classification that refuses a buffer whose message type is not
\* Voice.
voice_impl_enumeration_typed(kinds, bits) ==
    LET type == try_read("MessageType", bits)
        opcode == try_read("Opcode", bits)
    IN  IF type.tag # "Ok" THEN type
        ELSE IF type.value # "Voice" THEN Err(Error_conversion(MessageType.codes[type.value]))
        ELSE IF opcode.tag # "Ok" THEN opcode
        ELSE IF opcode.value \in kinds
             THEN IF Message_try_new(opcode.value, bits).tag = "Ok"
                  THEN Ok(<<opcode.value>>)
                  ELSE Message_try_new(opcode.value, bits)
             ELSE Panic

\* voice::impl_enumeration!'s try_new over the listed kinds.
voice_impl_enumeration(kinds, bits) ==
    LET opcode == try_read("Opcode", bits)
    IN  IF opcode.tag # "Ok" THEN opcode
        ELSE IF opcode.value \in kinds
             THEN IF Message_try_new(opcode.value, bits).tag = "Ok"
                  THEN Ok(<<opcode.value>>)
                  ELSE Message_try_new(opcode.value, bits)
             ELSE Panic

Voice_try_new(bits) == voice_impl_enumeration(VoiceKinds, bits)

----------------------------------------------------------------------------
(* Inputs                                                                  *)

\* 16-bit values tried for the u16 and (as halves) the u32 fields.
Samples16 == {0, 1, 255, 256, 32745, 32768, 43690, 65535}

\* The integers tried as a constructor's argument, by integral width.
IntegralInputs(width) ==
    IF width = 8 THEN 0..255 ELSE (0..520) \cup Samples16

\* The values of a field type that a caller can hold.
ValidValues(T) ==
    LET F == FieldOf(T)
    IN  CASE F.class = "arbitrary" ->
                {ToBits(n, F.integral) : n \in 0..((2 ^ F.size) - 1)}
          [] F.class = "primitive" /\ F.integral = 8 -> {u8(n) : n \in 0..255}
          [] F.class = "primitive" /\ F.integral = 16 -> {u16(n) : n \in Samples16}
          [] F.class = "primitive" /\ F.integral = 32 ->
                {u32(hi, lo) : hi \in Samples16, lo \in {0, 1, 32745, 65535}}
          [] F.class = "enum" -> DOMAIN F.codes
          [] F.class = "Type" ->
                {"Frames", "Seconds", "Minutes", "Hours"} \X {"Least", "Most"}

\* Contents a buffer may hold before it is used: zeros, ones, 1010...
Backgrounds(words) ==
    {Zeros(words * WordBits), Ones(words * WordBits),
     [i \in 1..(words * WordBits) |-> i % 2]}

\* bits with byte k (zero-based) replaced by the raw value b.
WithByte(bits, k, b) ==
    [i \in 1..Len(bits) |->
        IF 8 * k < i /\ i <= 8 * k + 8 THEN u8(b)[i - 8 * k] ELSE bits[i]]

NoResult == [tag |-> "None"]

\* The composite value types, and the values of each that a caller can hold.
CompositeTypes == {"Attribute", "QuarterFrame"}

CompositeValues(V) ==
    CASE V = "Attribute" ->
            {<<"None">>}
                \cup {<<"Manufacturer", u16(n)>> : n \in Samples16}
                \cup {<<"Profile", u16(n)>> : n \in Samples16}
                \cup {<<"Pitch", u8(p), u16(f)>> : p \in {0, 64, 127},
                                                    f \in {0, 1, 256, 511}}
      [] V = "QuarterFrame" ->
            {<<u8(d), t>> : d \in 0..15, t \in ValidValues("common::Type")}

----------------------------------------------------------------------------
(* Fields over a bare two-word packet                                      *)

FieldInit ==
    /\ packet \in Backgrounds(VoiceWords)
    /\ message = "none"
    /\ log = <<>>
    /\ op = [name |-> "none"]
    /\ prev = packet
    /\ result = NoResult

\* The buffer's owner stores a raw byte: data as received.
FieldStoreRaw ==
    /\ op.name = "none"
    /\ \E k \in 0..(VoiceWords * 4 - 1), b \in 0..255 :
        /\ packet' = WithByte(packet, k, b)
        /\ op' = [name |-> "store_raw", byte |-> k, raw |-> b]
    /\ prev' = packet
    /\ UNCHANGED <<message, log, result>>

\* value.write(packet, None)
FieldWrite ==
    /\ op.name = "none"
    /\ \E T \in FieldTypes : \E v \in ValidValues(T) :
        /\ packet' = write(T, v, packet)
        /\ log' = <<[name |-> "write", field |-> T, value |-> v]>>
        /\ op' = [name |-> "write", field |-> T, value |-> v]
    /\ prev' = packet
    /\ UNCHANGED <<message, result>>

\* T::try_read(&packet, None)
FieldRead ==
    /\ op.name \in {"none", "store_raw", "write"}
    /\ \E T \in FieldTypes :
        /\ op.name = "write" => op.field = T
        /\ result' = try_read(T, packet)
        /\ op' = [name |-> "read", field |-> T]
    /\ prev' = packet
    /\ UNCHANGED <<packet, message, log>>

\* T::try_new(n) of a UInt-backed field type
FieldTryNew ==
    /\ op.name = "none"
    /\ \E T \in {U \in FieldTypes : FieldOf(U).class = "arbitrary"} :
       \E n \in IntegralInputs(FieldOf(T).integral) :
        /\ result' = try_new(T, n)
        /\ op' = [name |-> "try_new", field |-> T, n |-> n]
    /\ prev' = packet
    /\ UNCHANGED <<packet, message, log>>

\* packet.write_field(value) of a composite value
FieldWriteValue ==
    /\ op.name = "none"
    /\ \E V \in CompositeTypes : \E v \in CompositeValues(V) :
        /\ packet' = set_value(V, v, packet)
        /\ op' = [name |-> "write_value", type |-> V, value |-> v,
                  accesses |-> write_accesses(V, v)]
        /\ log' = <<op'>>
    /\ prev' = packet
    /\ UNCHANGED <<message, result>>

\* packet.try_read_field::<V>() of a composite value type
FieldReadValue ==
    /\ op.name \in {"none", "store_raw", "write_value"}
    /\ \E V \in CompositeTypes :
        /\ op.name = "write_value" => op.type = V
        /\ result' = get_value(V, packet)
        /\ op' = [name |-> "read_value", type |-> V,
                  accesses |-> read_accesses(V, packet)]
    /\ prev' = packet
    /\ UNCHANGED <<packet, message, log>>

FieldNext ==
    \/ FieldStoreRaw
    \/ FieldWrite
    \/ FieldRead
    \/ FieldTryNew
    \/ FieldWriteValue
    \/ FieldReadValue

FieldSpec == FieldInit /\ [][FieldNext]_vars

----------------------------------------------------------------------------
(* Messages over a buffer: construction, the setters and getters of the    *)
(* live handle, and classification of the buffer once the handle is gone.  *)

\* The longest buffer tried, in words.
MaxWords == 8

\* The most calls logged on one buffer.
MaxOps == 3

\* The values the setters and try_init are called with, by type.
SetValues(T) ==
    CASE T = "MessageType" -> {"Stream"}
      [] T = "Group" -> {u8(3)}
      [] T = "Status" -> {"Reset"}
      [] T = "Opcode" -> {"PerNoteManagement"}
      [] T = "Channel" -> {"C6"}
      [] T = "Note" -> {u8(64), u8(127)}
      [] T = "Velocity" -> {u16(32745)}
      [] T = "Bank" -> {u8(127)}
      [] T = "Controller" -> {u8(2)}
      [] T = "PerNoteController" -> {u8(255)}
      [] T = "voice::Data" -> {u32(32768, 1)}
      [] T = "Attribute" ->
            {<<"None">>, <<"Manufacturer", u16(43690)>>,
             <<"Profile", u16(65535)>>, <<"Pitch", u8(127), u16(511)>>}
      [] T = "QuarterFrame" ->
            {<<u8(15), <<"Hours", "Most">>>>, <<u8(5), <<"Seconds", "Least">>>>}

\* The arguments try_init is called with: a value for each name it takes.
ArgSets(K) ==
    LET names == {MessageOf(K).init[i] : i \in DOMAIN MessageOf(K).init}
    IN  {args \in [names -> UNION {SetValues(ValueType(K, n)) : n \in names}] :
            \A n \in names : args[n] \in SetValues(ValueType(K, n))}

\* The last kind of a classification's path of variants.
KindOf(path) == path[Len(path)]

\* A panic ends the program.
Running == result.tag # "Panic"

Init ==
    /\ packet \in UNION {{Zeros(words * WordBits), Ones(words * WordBits)} :
                            words \in 0..MaxWords}
    /\ message = "none"
    /\ log = <<>>
    /\ op = [name |-> "none"]
    /\ prev = packet
    /\ result = NoResult

\* let mut packet = K::packet(): a fresh buffer, before any message is built
Packet ==
    /\ Running
    /\ message = "none"
    /\ log = <<>>
    /\ \E K \in Kinds :
        /\ packet' = Message_packet(K)
        /\ op' = [name |-> "packet", kind |-> K]
        /\ log' = <<op'>>
    /\ prev' = packet'
    /\ result' = NoResult
    /\ UNCHANGED message

\* K::try_new(&mut packet) over a buffer no message was built on
TryNew ==
    /\ Running
    /\ message = "none"
    /\ log = <<>>
    /\ \E K \in Kinds :
        /\ result' = Message_try_new(K, packet)
        /\ op' = [name |-> "try_new", kind |-> K]
        /\ message' = IF result'.tag = "Ok" THEN K ELSE "none"
        /\ log' = IF result'.tag = "Ok" THEN Append(log, op') ELSE log
    /\ prev' = packet
    /\ UNCHANGED packet

\* K::try_init(&mut packet, args...); on a buffer a message was initialised
\* on before, with that kind and those arguments again; on a buffer fresh from
\* K::packet(), with kind K
TryInit ==
    /\ Running
    /\ message = "none"
    /\ Len(log) < MaxOps
    /\ \E K \in Kinds : \E args \in ArgSets(K) :
        /\ log # <<>> =>
            \/ log[1] = [name |-> "try_init", kind |-> K, args |-> args]
            \/ log = <<[name |-> "packet", kind |-> K]>>
        /\ result' = try_init(K, args, packet).result
        /\ packet' = try_init(K, args, packet).bits
        /\ op' = [name |-> "try_init", kind |-> K, args |-> args]
        /\ message' = IF result'.tag = "Ok" THEN K ELSE "none"
        /\ log' = IF result'.tag = "Ok" THEN Append(log, op') ELSE log
    /\ prev' = packet

\* message.set_<name>(v)
Set ==
    /\ Running
    /\ message # "none"
    /\ Len(log) < MaxOps
    /\ \E name \in ValueNames(message) :
       \E v \in SetValues(ValueType(message, name)) :
        /\ packet' = set_value(ValueType(message, name), v, packet)
        /\ op' = [name |-> "set", field |-> name, value |-> v]
        /\ log' = Append(log, op')
    /\ result' = Ok(message)
    /\ prev' = packet
    /\ UNCHANGED message

\* A getter that clears the buffer when the read fails.
Get_clearing_on_error ==
    /\ Running
    /\ message # "none"
    /\ \E name \in ValueNames(message) :
        /\ op.name = "get" => op.field = name
        /\ result' = get_value(ValueType(message, name), packet)
        /\ op' = [name |-> "get", field |-> name]
        /\ packet' = IF result'.tag = "Err" THEN reset(packet) ELSE packet
    /\ prev' = packet
    /\ UNCHANGED <<message, log>>

\* message.<name>()
Get ==
    /\ Running
    /\ message # "none"
    /\ \E name \in ValueNames(message) :
        /\ op.name = "get" => op.field = name
        /\ result' = get_value(ValueType(message, name), packet)
        /\ op' = [name |-> "get", field |-> name]
    /\ prev' = packet
    /\ UNCHANGED <<packet, message, log>>

\* message.reset()
ResetMessage ==
    /\ Running
    /\ message # "none"
    /\ Len(log) < MaxOps
    /\ packet' = reset(packet)
    /\ op' = [name |-> "reset", before |-> packet]
    /\ log' = Append(log, op')
    /\ result' = Ok(message)
    /\ prev' = packet
    /\ UNCHANGED message

\* The handle goes out of scope: the borrow of the buffer ends.
Drop ==
    /\ Running
    /\ message # "none"
    /\ message' = "none"
    /\ op' = [name |-> "drop"]
    /\ result' = NoResult
    /\ prev' = packet
    /\ UNCHANGED <<packet, log>>

\* System::try_new(bits) or Voice::try_new(bits)
Classify ==
    /\ Running
    /\ message = "none"
    /\ Len(log) < MaxOps
    /\ \E family \in {"System", "Voice"} :
        /\ result' = IF family = "System" THEN System_try_new(packet)
                                          ELSE Voice_try_new(packet)
        /\ op' = [name |-> "classify", family |-> family]
        /\ message' = IF result'.tag = "Ok" THEN KindOf(result'.value) ELSE "none"
        /\ log' = IF result'.tag = "Ok" THEN Append(log, op') ELSE log
    /\ prev' = packet
    /\ UNCHANGED packet

Next ==
    \/ Packet
    \/ TryNew
    \/ TryInit
    \/ Set
    \/ Get
    \/ ResetMessage
    \/ Drop
    \/ Classify

Spec == Init /\ [][Next]_vars

----------------------------------------------------------------------------
(* Classification of received buffers                                      *)

\* The first bytes of the buffers received: a System message of group 0, a
\* Voice message of group 15 and an undefined message type.
FirstBytes == {16, 79, 32}

\* Buffers as received: every second byte under each first byte, the rest of
\* the buffer zeros or ones; and the empty buffer.
ReceivedBuffers ==
    {<<>>} \cup
    {WithByte(WithByte(background, 0, b0), 1, b1) :
        background \in UNION {{Zeros(words * WordBits), Ones(words * WordBits)} :
                                words \in 1..MaxWords},
        b0 \in FirstBytes, b1 \in 0..255}

ClassifyInit ==
    /\ packet \in ReceivedBuffers
    /\ message = "none"
    /\ log = <<>>
    /\ op = [name |-> "none"]
    /\ prev = packet
    /\ result = NoResult

ClassifyNext ==
    \/ Classify
    \/ Get

ClassifySpec == ClassifyInit /\ [][ClassifyNext]_vars

----------------------------------------------------------------------------
(* Properties of fields                                                    *)

RECURSIVE RawValue(_, _, _)
\* The unsigned number bits s..e (zero-based, inclusive) spell, s first.
RawValue(bits, s, e) ==
    IF e < s THEN 0 ELSE 2 * RawValue(bits, s, e - 1) + bits[e + 1]

\* C1: writing a valid value v of a field type into a packet, whatever the
\* packet held, and then reading the same field type returns Ok(v).
C1_RoundTrip ==
    (op.name = "read" /\ log # <<>> /\ log[1].name = "write"
                      /\ log[1].field = op.field)
        => result = Ok(log[1].value)

C1_Witness ==
    /\ op.name = "read"
    /\ log # <<>>
    /\ log[1].field = "Velocity"
    /\ log[1].value = u16(32745)
    /\ packet[1] = 1
    /\ result = Ok(u16(32745))

\* C2: a field write changes no bit outside the field's inclusive range.
C2_WriteFrame ==
    op.name = "write" =>
        /\ Len(packet) = Len(prev)
        /\ \A i \in 0..(Len(packet) - 1) :
            (i < FieldOf(op.field).range[1] \/ i > FieldOf(op.field).range[2])
                => packet[i + 1] = prev[i + 1]

C2_Witness ==
    /\ op.name = "write"
    /\ op.field = "Group"
    /\ op.value = u8(3)
    /\ prev = Ones(VoiceWords * WordBits)
    /\ packet # prev

\* The declared widths of the width-bounded field types.
C3_Width(T) ==
    CASE T \in {"Group", "common::Data"} -> 4
      [] T \in {"Note", "Bank", "Controller", "Pitch"} -> 7
      [] T = "Fractional" -> 9

\* C3: T::try_new(n) of a width-bounded field type of width w is Ok exactly
\* when n < 2^w, and Err(Overflow(n, w)) for every n >= 2^w.
C3_WidthRejection ==
    op.name = "try_new" =>
        result = IF op.n < 2 ^ C3_Width(op.field)
                 THEN Ok(ToBits(op.n, FieldOf(op.field).integral))
                 ELSE Err(Error_overflow(op.n, C3_Width(op.field)))

C3_Witness ==
    /\ op.name = "try_new"
    /\ op.field = "Note"
    /\ op.n = 200
    /\ result = Err(Error_overflow(200, 7))

\* The codes each enumeration-backed field type accepts.
C5_Accepted(T) ==
    CASE T = "MessageType" -> {0, 1, 3, 4, 5, 13, 15}
      [] T = "Status" -> {241, 242, 243, 246, 248, 250, 251, 252, 254, 255}
      [] T = "Opcode" -> (0..15) \ {7}
      [] T = "AttributeType" -> 0..3

\* C5: reading an enumeration-backed field returns the variant whose code is
\* the raw value of the field's bits when that code is accepted, and
\* Err(Conversion(raw value)) otherwise.
C5_EnumRead ==
    (op.name = "read" /\ op.field \in {"MessageType", "Status", "Opcode", "AttributeType"}) =>
        LET F == FieldOf(op.field)
            raw == RawValue(packet, F.range[1], F.range[2])
        IN  IF raw \in C5_Accepted(op.field)
            THEN result.tag = "Ok" /\ F.codes[result.value] = raw
            ELSE result = Err(Error_conversion(raw))

C5_Witness ==
    /\ op.name = "read"
    /\ op.field = "Opcode"
    /\ result = Err(Error_conversion(7))

\* The 8-bit slot of each 7-bit field.
C6_Slot(T) ==
    CASE T \in {"Note", "Bank"} -> <<16, 23>>
      [] T = "Controller" -> <<24, 31>>

\* C6: reading a 7-bit field from an 8-bit slot holding r returns
\* Err(Overflow(r, 7)) for r in 128..255 and Ok(r) for r in 0..127.
C6_SevenBitSlot ==
    (op.name = "read" /\ op.field \in {"Note", "Bank", "Controller"}) =>
        LET r == RawValue(packet, C6_Slot(op.field)[1], C6_Slot(op.field)[2])
        IN  result = IF r >= 128 THEN Err(Error_overflow(r, 7)) ELSE Ok(u8(r))

C6_Witness ==
    /\ op.name = "read"
    /\ op.field = "Bank"
    /\ result = Err(Error_overflow(255, 7))

----------------------------------------------------------------------------
(* Properties of messages and families                                     *)

\* The words of a packet, each as <<high 16 bits, low 16 bits>>.
Words(bits) ==
    [k \in 1..(Len(bits) \div WordBits) |->
        <<RawValue(bits, WordBits * (k - 1), WordBits * (k - 1) + 15),
          RawValue(bits, WordBits * (k - 1) + 16, WordBits * k - 1)>>]

\* C4: constructing a message kind over a buffer succeeds only when the
\* buffer's bit length is the kind's (32 for System kinds, 64 for Voice
\* kinds), and returns Err(Size(expected, actual)) for every other length.
C4_SizeRejection ==
    op.name \in {"try_new", "try_init"} =>
        LET expected == IF op.kind \in VoiceKinds THEN 64 ELSE 32
        IN  IF Len(prev) = expected
            THEN result = Ok(op.kind)
            ELSE result = Err(Error_size(expected, Len(prev)))

\* The calls of Scenario A.
C7_ScenarioA ==
    /\ Len(log) = 3
    /\ log[1] = [name |-> "try_init", kind |-> "NoteOn",
                 args |-> [note |-> u8(64), velocity |-> u16(32745)]]
    /\ log[2].name = "set" /\ log[2].field = "group"
    /\ log[2].value = u8(3)
    /\ log[3].name = "set" /\ log[3].field = "channel"
    /\ log[3].value = "C6"

\* What the getters return after Scenario A.
C7_Values ==
    /\ get_value("MessageType", packet) = Ok("Voice")
    /\ get_value("Group", packet) = Ok(u8(3))
    /\ get_value("Opcode", packet) = Ok("NoteOn")
    /\ RawValue(packet, 12, 15) = 5
    /\ get_value("Note", packet) = Ok(u8(64))
    /\ get_value("Velocity", packet) = Ok(u16(32745))

\* C7 as claimed: Scenario A yields the words [0x43854000, 0x7fe90000].
C7_ScenarioA_Claimed ==
    C7_ScenarioA =>
        /\ Words(packet) = <<<<\H4385, \H4000>>, <<\H7fe9, \H0000>>>>
        /\ C7_Values

\* C7 as amended: Scenario A yields the words [0x43954000, 0x7fe90000], with
\* message type Voice, group 3, opcode NoteOn (0x9), channel 5, note 64 and
\* velocity 32745.
C7_ScenarioA_Amended ==
    C7_ScenarioA =>
        /\ Words(packet) = <<<<\H4395, \H4000>>, <<\H7fe9, \H0000>>>>
        /\ C7_Values

C7_Witness == C7_ScenarioA /\ op.name = "set" /\ message = "NoteOn"

\* The status code of each System Real Time kind.
C8_Code(K) ==
    CASE K = "TimingClock" -> \Hf8
      [] K = "Start" -> \Hfa
      [] K = "Continue" -> \Hfb
      [] K = "Stop" -> \Hfc
      [] K = "ActiveSensing" -> \Hfe
      [] K = "Reset" -> \Hff

\* C8: try_init of a System Real Time kind K on a one-word buffer yields the
\* word 0x10000000 + (K's status code << 16); then message_type() is
\* System, group() is Group 0 and status() is K's status.
C8_RealTimeInit ==
    (op.name = "try_init" /\ op.kind \in RealTimeKinds /\ Len(prev) = 32) =>
        /\ result = Ok(op.kind)
        /\ Words(packet) = <<<<\H1000 + C8_Code(op.kind), 0>>>>
        /\ get_value("MessageType", packet) = Ok("System")
        /\ get_value("Group", packet) = Ok(u8(0))
        /\ get_value("Status", packet) = Ok(op.kind)

C8_Witness ==
    /\ op.name = "try_init"
    /\ op.kind = "Reset"
    /\ prev = Ones(32)
    /\ Words(packet) = <<<<\H10ff, 0>>>>

\* The System Real Time kind of each real-time status code.
C9_RealTime(status) ==
    CASE status = \Hf8 -> "TimingClock"
      [] status = \Hfa -> "Start"
      [] status = \Hfb -> "Continue"
      [] status = \Hfc -> "Stop"
      [] status = \Hfe -> "ActiveSensing"
      [] status = \Hff -> "Reset"

\* C9: classifying a one-word buffer as a System message gives the RealTime
\* variant of its status byte for each of the six real-time statuses, and
\* Err(Conversion(status byte)) when the byte is no defined status.
C9_SystemDispatch ==
    (op.name = "classify" /\ op.family = "System" /\ Len(packet) = 32) =>
        LET status == RawValue(packet, 8, 15)
        IN  /\ status \in {\Hf8, \Hfa, \Hfb, \Hfc, \Hfe, \Hff} =>
                result = Ok(<<"RealTime", C9_RealTime(status)>>)
            /\ status \notin {\Hf1, \Hf2, \Hf3, \Hf6, \Hf8, \Hfa, \Hfb, \Hfc, \Hfe, \Hff} =>
                result = Err(Error_conversion(status))

C9_Witness ==
    /\ op.name = "classify"
    /\ op.family = "System"
    /\ Words(packet) = <<<<\H10f8, 0>>>>
    /\ result = Ok(<<"RealTime", "TimingClock">>)
    /\ message = "TimingClock"

\* C10: classifying a two-word buffer as a Voice message never panics: it
\* gives a variant for the opcodes 0x0-0x6, 0x8 and 0x9 and Err(Conversion)
\* for every other opcode.
C10_VoiceTotal ==
    (op.name = "classify" /\ op.family = "Voice" /\ Len(packet) = 64) =>
        IF RawValue(packet, 8, 11) \in (0..6) \cup {8, 9}
        THEN result.tag = "Ok"
        ELSE result.tag = "Err" /\ result.error.kind = "Conversion"

\* C11: classifying a one-word buffer as a System message never panics: the
\* statuses 0xf2, 0xf3 and 0xf6 give Err(Conversion) and 0xf1 gives the
\* Common/MIDITimeCode variant.
C11_SystemTotal ==
    (op.name = "classify" /\ op.family = "System" /\ Len(packet) = 32) =>
        LET status == RawValue(packet, 8, 15)
        IN  /\ result.tag # "Panic"
            /\ status \in {\Hf2, \Hf3, \Hf6} =>
                result.tag = "Err" /\ result.error.kind = "Conversion"
            /\ status = \Hf1 => result = Ok(<<"Common", "MIDITimeCode">>)

\* C12: when a buffer's discriminant selects a kind but its bit length is
\* not the kind's (32 for a System kind, 64 for a Voice kind), classification
\* returns Err(Size(the kind's bits, the buffer's bits)).
C12_SizeRevalidated ==
    (op.name = "classify" /\ Len(packet) >= 16) =>
        /\ (/\ op.family = "System"
            /\ RawValue(packet, 8, 15) \in {\Hf1, \Hf8, \Hfa, \Hfb, \Hfc, \Hfe, \Hff}
            /\ Len(packet) # 32)
                => result = Err(Error_size(32, Len(packet)))
        /\ (/\ op.family = "Voice"
            /\ RawValue(packet, 8, 11) \in (0..6) \cup {8, 9}
            /\ Len(packet) # 64)
                => result = Err(Error_size(64, Len(packet)))

\* The calls init, reset and init again (with the same kind and arguments).
C13_Calls ==
    /\ Len(log) = 3
    /\ log[1].name = "try_init"
    /\ log[2].name = "reset"
    /\ log[3] = log[1]

\* C13: init, then reset, then init again with the same arguments leaves the
\* buffer as the first init left it.
C13_InitResetInit == C13_Calls => packet = log[2].before

C13_Witness ==
    /\ C13_Calls
    /\ op.name = "try_init"
    /\ log[1].kind = "NoteOn"
    /\ Words(packet) = <<<<\H4090, \H4000>>, <<\H7fe9, 0>>>>

\* The status or opcode code of each kind.
C14_Code(K) ==
    CASE K = "MIDITimeCode" -> \Hf1
      [] K \in RealTimeKinds -> C8_Code(K)
      [] K = "RegisteredPerNoteController" -> 0
      [] K = "AssignablePerNoteController" -> 1
      [] K = "RegisteredController" -> 2
      [] K = "AssignableController" -> 3
      [] K = "RelativeRegisteredController" -> 4
      [] K = "RelativeAssignableController" -> 5
      [] K = "PerNotePitchBend" -> 6
      [] K = "NoteOff" -> 8
      [] K = "NoteOn" -> 9

\* The buffer's message type and status or opcode are those of kind K.
C14_Discriminants(K, bits) ==
    IF K \in VoiceKinds
    THEN RawValue(bits, 0, 3) = 4 /\ RawValue(bits, 8, 11) = C14_Code(K)
    ELSE RawValue(bits, 0, 3) = 1 /\ RawValue(bits, 8, 15) = C14_Code(K)

\* C14: a buffer wrapped as kind K is accepted only when its message type and
\* its status or opcode are K's.
C14_WrapValidated ==
    (op.name = "try_new" /\ result.tag = "Ok") =>
        C14_Discriminants(op.kind, packet)

\* C15: a getter (Ok or Err) and a classification leave every bit of the
\* buffer unchanged; after a failed read every field reads as it did before,
\* and a repeated read of a field returns the same result.
C15_ReadOnly ==
    [][/\ op'.name \in {"get", "classify"} => packet' = packet
       /\ (op'.name = "get" /\ result'.tag = "Err") =>
            \A name \in ValueNames(message) :
                get_value(ValueType(message, name), packet')
                    = get_value(ValueType(message, name), packet)
       /\ (op.name = "get" /\ op'.name = "get" /\ op'.field = op.field) =>
            result' = result]_vars

C15_Witness ==
    /\ op.name = "get"
    /\ result.tag = "Err"
    /\ message = "NoteOn"
    /\ packet = Ones(64)

\* C16: a field set in a message shares no bit with any other field of its
\* kind; a setter leaves every other field's getter unchanged and commutes with every other
\* field's setter; on an initialised TimingClock, set_group(Group 3) turns
\* 0x10f80000 into 0x13f80000 and leaves message type and status alone.
C16_DisjointFields ==
    /\ op.name = "set" =>
        \A Y \in ValueNames(message) \ {op.field} :
            LET XT == ValueType(message, op.field)
                YT == ValueType(message, Y)
            IN  /\ ValueBits(XT) \cap ValueBits(YT) = {}
                /\ get_value(YT, packet) = get_value(YT, prev)
                /\ \A w \in SetValues(YT) :
                    set_value(YT, w, packet)
                        = set_value(XT, op.value, set_value(YT, w, prev))
    /\ (/\ op.name = "set"
        /\ op.field = "group"
        /\ Len(log) = 2
        /\ log[1].name = "try_init"
        /\ log[1].kind = "TimingClock") =>
            /\ Words(prev) = <<<<\H10f8, 0>>>>
            /\ Words(packet) = <<<<\H13f8, 0>>>>
            /\ get_value("Group", packet) = Ok(u8(3))
            /\ get_value("MessageType", packet) = Ok("System")
            /\ get_value("Status", packet) = Ok("TimingClock")

C16_Witness ==
    /\ op.name = "set"
    /\ op.field = "group"
    /\ message = "TimingClock"
    /\ Words(prev) = <<<<\H10f8, 0>>>>
    /\ Words(packet) = <<<<\H13f8, 0>>>>

\* C17: K::packet() is all zeros and of K's word count (1 word for a System
\* kind, 2 for a Voice kind), and K::try_init over it succeeds.
C17_PacketFits ==
    /\ op.name = "packet" =>
        packet = Zeros(IF op.kind \in VoiceKinds THEN 64 ELSE 32)
    /\ (/\ log # <<>>
        /\ log[1].name = "packet"
        /\ op.name = "try_init"
        /\ op.kind = log[1].kind) => result = Ok(op.kind)

C17_Witness ==
    /\ Len(log) = 2
    /\ log[1] = [name |-> "packet", kind |-> "NoteOn"]
    /\ op.name = "try_init"
    /\ op.kind = "NoteOn"
    /\ result = Ok("NoteOn")

\* C18: try_init or try_new over a buffer of the wrong size returns
\* Err(Size), gives no message and leaves every word of the buffer as it was.
C18_SizeFailure ==
    (/\ op.name \in {"try_new", "try_init"}
     /\ Len(prev) # (IF op.kind \in VoiceKinds THEN 64 ELSE 32)) =>
        /\ result.tag = "Err"
        /\ result.error.kind = "Size"
        /\ message = "none"
        /\ packet = prev

\* C19: classifying a buffer too short to hold the status or opcode bits
\* (the empty buffer) returns an error value.
C19_SizeBeforeAccess ==
    (op.name = "classify" /\ Len(packet) < 16) => result.tag = "Err"

\* C20: after K::try_init the buffer holds K's message type and status or
\* opcode, group 0, channel 0 (Voice), the supplied values in the mandatory
\* fields and 0 in every other bit, whatever it held before.
C20_InitDetermined ==
    (op.name = "try_init" /\ result.tag = "Ok") =>
        /\ C14_Discriminants(op.kind, packet)
        /\ RawValue(packet, 4, 7) = 0
        /\ op.kind \in VoiceKinds => RawValue(packet, 12, 15) = 0
        /\ \A name \in DOMAIN op.args :
            get_value(ValueType(op.kind, name), packet) = Ok(op.args[name])
        /\ \A i \in 16..(Len(packet) - 1) :
            i \notin UNION {ValueBits(ValueType(op.kind, name)) :
                                name \in DOMAIN op.args}
                => packet[i + 1] = 0

C20_Witness ==
    /\ op.name = "try_init"
    /\ op.kind = "RegisteredController"
    /\ result = Ok("RegisteredController")
    /\ prev = Ones(64)
    /\ Words(packet) = <<<<\H4020, \H7f02>>, <<0, 0>>>>

\* C21: decoding an Attribute is decided by the attribute-type byte (bits
\* 24-31): 0 gives None, 1 Manufacturer(bits 48-63), 2 Profile(bits 48-63),
\* 3 Pitch(bits 48-54, bits 55-63); a byte above 3 gives Conversion(byte),
\* no value, and no payload field is read.
C21_AttributeDecode ==
    (op.name = "read_value" /\ op.type = "Attribute") =>
        LET type == RawValue(packet, 24, 31)
            payload == <<RawValue(packet, 48, 63)>>
            pitch == <<RawValue(packet, 48, 54), RawValue(packet, 55, 63)>>
        IN  /\ type = 0 => result = Ok(<<"None">>)
            /\ type = 1 => result = Ok(<<"Manufacturer", u16(payload[1])>>)
            /\ type = 2 => result = Ok(<<"Profile", u16(payload[1])>>)
            /\ type = 3 => result = Ok(<<"Pitch", u8(pitch[1]), u16(pitch[2])>>)
            /\ type > 3 =>
                /\ result = Err(Error_conversion(type))
                /\ op.accesses = <<"AttributeType">>

C21_Witness ==
    /\ op.name = "read_value"
    /\ op.type = "Attribute"
    /\ RawValue(packet, 24, 31) = 3
    /\ result = Ok(<<"Pitch", u8(85), u16(170)>>)

\* The discriminant field of each composite value type.
C22_Discriminant(V) ==
    CASE V = "Attribute" -> "AttributeType"
      [] V = "QuarterFrame" -> "common::Type"

C23_Last == log[Len(log)]

C23_CompositeRoundTrip ==
    (/\ op.name = "get"
     /\ op.field \in {"attribute", "quarter_frame"}
     /\ log # <<>>
     /\ C23_Last.name = "set"
     /\ C23_Last.field = op.field)
        => result = Ok(C23_Last.value)

C23_Witness ==
    /\ op = [name |-> "get", field |-> "attribute"]
    /\ Len(log) = 3
    /\ log[2].name = "set"
    /\ log[2].field = "attribute"
    /\ log[2].value = <<"Pitch", u8(127), u16(511)>>
    /\ log[3].name = "set"
    /\ log[3].field = "attribute"
    /\ log[3].value = <<"Manufacturer", u16(43690)>>
    /\ result = Ok(<<"Manufacturer", u16(43690)>>)

\* C24: fields are unsigned and most-significant-bit first.  Bit i of a
\* packet is bit (31 - i mod 32) of word (i div 32); the raw value read from
\* the range s..e is the sum over i in s..e of bit(i) * 2^(e - i), and a write
\* stores its value under the same mapping.  Sums are taken over at most 16
\* bits at a time: the low 16 bits of the value and the bits above them.
C24_Bit(words, i) ==
    LET word == words[(i \div WordBits) + 1]
        position == (WordBits - 1) - (i % WordBits)
    IN  IF position >= 16
        THEN (word[1] \div (2 ^ (position - 16))) % 2
        ELSE (word[2] \div (2 ^ position)) % 2

RECURSIVE C24_Sum(_, _, _)
C24_Sum(words, i, e) ==
    IF i > e THEN 0 ELSE C24_Bit(words, i) * (2 ^ (e - i)) + C24_Sum(words, i + 1, e)

C24_Low(integral) ==
    IF Len(integral) > 16
    THEN ToNat(SubSeq(integral, Len(integral) - 15, Len(integral)))
    ELSE ToNat(integral)

C24_High(integral) ==
    IF Len(integral) > 16
    THEN ToNat(SubSeq(integral, 1, Len(integral) - 16))
    ELSE 0

C24_Mapped(words, range, integral) ==
    LET split == IF range[2] - 15 > range[1] THEN range[2] - 15 ELSE range[1]
    IN  /\ C24_Low(integral) = C24_Sum(words, split, range[2])
        /\ C24_High(integral) = C24_Sum(words, range[1], split - 1)

C24_MsbFirst ==
    /\ op.name = "read" =>
        LET F == FieldOf(op.field)
            words == Words(packet)
        IN  /\ C24_Mapped(words, F.range,
                          get_integral(packet, F.range, F.integral))
            /\ (F.class \in {"arbitrary", "primitive"} /\ result.tag = "Ok")
                    => C24_Mapped(words, F.range, result.value)
            /\ (F.class = "enum" /\ result.tag = "Ok")
                    => F.codes[result.value] = C24_Sum(words, F.range[1], F.range[2])
            /\ result.tag = "Err"
                    => result.error.value = C24_Sum(words, F.range[1], F.range[2])
    /\ op.name = "write" =>
        C24_Mapped(Words(packet), FieldOf(op.field).range,
                   from(op.field, op.value))

C24_Witness ==
    /\ op.name = "read"
    /\ op.field = "Velocity"
    /\ Words(packet)[2] = <<43690, 43690>>
    /\ result = Ok(u16(43690))

\* The message was built by try_init and only setters were called since, and
\* the last call was one of these.
InitThenSetters ==
    /\ message # "none"
    /\ op.name \in {"try_init", "set"}
    /\ \A i \in DOMAIN log : log[i].name \in {"packet", "try_init", "set"}

\* C25: after K::try_init and any sequence of K's setters with valid values,
\* every getter of K returns Ok, and formatting the message with Debug does
\* not panic.
C25_GettersOk ==
    InitThenSetters =>
        /\ \A name \in ValueNames(message) :
                get_value(ValueType(message, name), packet).tag = "Ok"
        /\ fmt(message, packet) = Ok("formatted")

C25_Witness ==
    /\ message = "MIDITimeCode"
    /\ Len(log) = 3
    /\ log[1].name = "try_init"
    /\ log[2].name = "set"
    /\ log[2].field = "status"
    /\ op.name = "set"
    /\ op.field = "quarter_frame"
    /\ fmt(message, packet) = Ok("formatted")

\* The bits (zero-based) inside the declared range of some value of kind K.
C26_Declared(K) == UNION {ValueBits(ValueType(K, name)) : name \in ValueNames(K)}

C26_Zero(first, last) == \A i \in first..last : packet[i + 1] = 0

\* C26: after K::try_init and any sequence of K's setters, every bit outside
\* the declared ranges of K's fields is 0 (bits 16-31 of a Real Time message,
\* bits 16 and 24-31 of MIDITimeCode, bits 24-31 of PerNotePitchBend), and so
\* is the top bit of each 7-bit value in an 8-bit slot (bit 16 for Note and
\* Bank, bit 24 for Controller).
C26_UnusedBitsZero ==
    InitThenSetters =>
        /\ \A i \in (0..(Len(packet) - 1)) \ C26_Declared(message) :
                packet[i + 1] = 0
        /\ message \in RealTimeKinds => C26_Zero(16, 31)
        /\ message = "MIDITimeCode" => C26_Zero(16, 16) /\ C26_Zero(24, 31)
        /\ message = "PerNotePitchBend" => C26_Zero(24, 31)
        /\ {"note", "bank"} \cap ValueNames(message) # {} => C26_Zero(16, 16)
        /\ "controller" \in ValueNames(message) => C26_Zero(24, 24)

C26_Witness ==
    /\ message = "PerNotePitchBend"
    /\ Len(log) = 3
    /\ log[2].name = "set"
    /\ log[2].field = "note"
    /\ op.name = "set"
    /\ op.field = "data"
    /\ RawValue(packet, 16, 23) = 127
    /\ C26_Zero(24, 31)
    /\ packet[33] = 1

\* C28: set_attribute(Attribute::None) on a NoteOn or NoteOff sets the
\* attribute-type byte (bits 24-31) to 0 and changes no other bit: the
\* payload bits 48-63 an earlier set_attribute wrote stay in the packet.
C28_NoneKeepsPayload ==
    (/\ op.name = "set"
     /\ op.field = "attribute"
     /\ op.value[1] = "None")
        => /\ message \in {"NoteOn", "NoteOff"}
           /\ \A i \in 24..31 : packet[i + 1] = 0
           /\ \A i \in 0..(Len(packet) - 1) :
                i \notin 24..31 => packet[i + 1] = prev[i + 1]
           /\ Slice(packet, <<48, 63>>) = Slice(prev, <<48, 63>>)

C28_Witness ==
    /\ message = "NoteOn"
    /\ Len(log) = 3
    /\ log[2].name = "set"
    /\ log[2].field = "attribute"
    /\ log[2].value = <<"Manufacturer", u16(43690)>>
    /\ op.name = "set"
    /\ op.field = "attribute"
    /\ op.value = <<"None">>
    /\ RawValue(prev, 24, 31) = 1
    /\ RawValue(packet, 24, 31) = 0
    /\ Slice(packet, <<48, 63>>) = u16(43690)

\* The calls logged on the buffer before the classification.
C29_Calls == IF result.tag = "Ok" THEN SubSeq(log, 1, Len(log) - 1) ELSE log

\* The kind those calls initialised.
C29_Kind ==
    C29_Calls[CHOOSE i \in DOMAIN C29_Calls : C29_Calls[i].name = "try_init"].kind

\* The variant of a family that holds kind K.
C29_Variant(K) ==
    CASE K \in CommonKinds -> <<"Common", K>>
      [] K \in RealTimeKinds -> <<"RealTime", K>>
      [] K \in VoiceKinds -> <<K>>

\* C29: initialisation and classification agree: classifying, in K's
\* family, the buffer that K::try_init and any sequence of K's setters other
\* than set_message_type, set_status and set_opcode produced returns the
\* variant for K.
C29_InitClassifyAgree ==
    (/\ op.name = "classify"
     /\ \E i \in DOMAIN C29_Calls : C29_Calls[i].name = "try_init"
     /\ \A i \in DOMAIN C29_Calls :
            /\ C29_Calls[i].name \in {"packet", "try_init", "set"}
            /\ C29_Calls[i].name = "set" =>
                    C29_Calls[i].field \notin {"message_type", "status", "opcode"}
     /\ op.family = MessageOf(C29_Kind).family)
        => result = Ok(C29_Variant(C29_Kind))

C29_Witness ==
    /\ op = [name |-> "classify", family |-> "Voice"]
    /\ Len(log) = 3
    /\ log[1].name = "try_init"
    /\ log[1].kind = "NoteOn"
    /\ log[2].name = "set"
    /\ log[2].field = "channel"
    /\ RawValue(packet, 12, 15) = 5
    /\ result = Ok(<<"NoteOn">>)

\* First bytes of the buffers compared with the one classified: message type
\* and group of every kind, the buffer's own among them.
C27_FirstBytes == FirstBytes \cup {0, 255}

\* The buffers of the length of bits that agree with it on bits first..last
\* of the second byte: each first byte, the rest of the second byte zeros or
\* ones, over zeros and over ones.
C27_Agreeing(bits, last) ==
    LET kept == RawValue(bits, 8, last)
        free == 2 ^ (15 - last)
    IN  {WithByte(WithByte(background, 0, b0), 1, kept * free + rest) :
            background \in {Zeros(Len(bits)), Ones(Len(bits))},
            b0 \in C27_FirstBytes,
            rest \in {0, free - 1}}

\* C27: classification depends only on the family's discriminant bits and
\* the buffer's length, not on the message-type nibble: buffers of equal
\* length that agree on bits 8-15 get the same outcome from System::try_new,
\* and buffers that agree on bits 8-11 the same outcome from Voice::try_new,
\* whatever bits 0-3 hold.
C27_DiscriminantOnly ==
    (op.name = "classify" /\ Len(packet) >= WordBits) =>
        /\ op.family = "System" =>
                \A other \in C27_Agreeing(packet, 15) :
                    System_try_new(other) = result
        /\ op.family = "Voice" =>
                \A other \in C27_Agreeing(packet, 11) :
                    Voice_try_new(other) = result

C27_Witness ==
    /\ op = [name |-> "classify", family |-> "Voice"]
    /\ Len(packet) = VoiceWords * WordBits
    /\ RawValue(packet, 0, 3) = 2
    /\ RawValue(packet, 8, 11) = 9
    /\ result = Ok(<<"NoteOn">>)

====
